---- MODULE Spec2Model ----
(***************************************************************************)
(* Model of src/logic/contracts/safeContracts.ts (the per-chain contract   *)
(* registry, its cached contract handles, the deployment-transaction       *)
(* builder and gas estimate) and of the click handlers of the SafeListItem *)
(* component.                                                              *)
(*                                                                         *)
(* JavaScript values are modelled as follows.  A string is a TLA+ string;  *)
(* a falsy address (undefined or '') is "".  A thrown exception is the     *)
(* `kind` of a call's outcome: "Error" is the module's own                 *)
(* `throw new Error('... not found for chainId ...')`, "TypeError" is the  *)
(* runtime's error for reading a property of undefined (or calling a       *)
(* non-function), "Propagated" is an exception or rejection that comes     *)
(* out of the web3 / network layer.  Every `new web3.eth.Contract(...)`    *)
(* yields a fresh object; its identity is the `id` of the handle.          *)
(***************************************************************************)
EXTENDS Integers, Sequences, FiniteSets, TLC

\* ------------------------------------------------------------- bounds
\* Number of contract objects that may be created in one behaviour.
MaxHandles == 8
\* Largest raw gas estimate the node answers with.
MaxGas == 3

\* ------------------------------------------------------------- data
ContractNames ==
  {"MultiSend", "CompatibilityFallbackHandler", "GnosisSafeProxyFactory",
   "GnosisSafeL2", "SignMessageLib"}

\* Variant of the table whose '5700' record lacks an address.
ContractsTable_Incomplete ==
  [c \in {"57", "5700"} |->
     IF c = "57"
     THEN [MultiSend |-> "0x09645f834D432C0548B6c75F0cD4BEa2fCAac2Bd",
           CompatibilityFallbackHandler |-> "0xC397b8918a64f06b0dFba1653eCcE9fD68387326",
           GnosisSafeProxyFactory |-> "0x111dE2B36368ddDA41CCB0E335eb4a59A3750A1B",
           GnosisSafeL2 |-> "0x7e1eaA0f4BBDD5501dAb7542B405Ab7fc343105F",
           SignMessageLib |-> "0x90305FB725E56e042E8f4078e85e02408cA5D4E0"]
     ELSE [MultiSend |-> "0xe3e0CBe5CD22A111EB032C14D052838cd2d4eA07",
           CompatibilityFallbackHandler |-> "0x41279A031F6A7C42188a006746E0BAfA6d9cB343",
           GnosisSafeProxyFactory |-> "0x25622d7aB63452822B45B0bfa79e7D2be6b1aE04",
           GnosisSafeL2 |-> "0x84C2130B89b080aC92b99d988480f63955BCA09A",
           SignMessageLib |-> ""]]

\* The compiled-in table `contracts`.
ContractsTable ==
  [c \in {"57", "5700"} |->
     IF c = "57"
     THEN [MultiSend |-> "0x09645f834D432C0548B6c75F0cD4BEa2fCAac2Bd",
           CompatibilityFallbackHandler |-> "0xC397b8918a64f06b0dFba1653eCcE9fD68387326",
           GnosisSafeProxyFactory |-> "0x111dE2B36368ddDA41CCB0E335eb4a59A3750A1B",
           GnosisSafeL2 |-> "0x7e1eaA0f4BBDD5501dAb7542B405Ab7fc343105F",
           SignMessageLib |-> "0x90305FB725E56e042E8f4078e85e02408cA5D4E0"]
     ELSE [MultiSend |-> "0xe3e0CBe5CD22A111EB032C14D052838cd2d4eA07",
           CompatibilityFallbackHandler |-> "0x41279A031F6A7C42188a006746E0BAfA6d9cB343",
           GnosisSafeProxyFactory |-> "0x25622d7aB63452822B45B0bfa79e7D2be6b1aE04",
           GnosisSafeL2 |-> "0x84C2130B89b080aC92b99d988480f63955BCA09A",
           SignMessageLib |-> "0x6586e66ceFaa4961361bAE42EB2c70d89220A576"]]

\* Chain identifiers the application can pass: the two keys of the table
\* and one chain that has no entry in it.
ChainIds == {"57", "5700", "1"}

\* `let proxyFactoryMaster: ProxyFactory` etc.: declared, not initialised.
NoHandle == [defined |-> FALSE, abi |-> "", address |-> "", id |-> 0]

\* new web3.eth.Contract(abi, address): a fresh object bound to address.
Contract(abi, address, id) ==
  [defined |-> TRUE, abi |-> abi, address |-> address, id |-> id]

Thrown(kind) == [kind |-> kind, address |-> "", handle |-> NoHandle]
ReturnedHandle(h) == [kind |-> "ok", address |-> "", handle |-> h]
ReturnedAddress(a) == [kind |-> "ok", address |-> a, handle |-> NoHandle]

\* ------------------------------------------------------------- lookups
\* `c` is the table, `chain` the chainId argument, `id` the identity the
\* new contract object gets.  `c[chain].X` with chain not a key of c reads
\* a property of undefined.
getGnosisSafeContractInstance(c, chain, id) ==
  IF chain \notin DOMAIN c THEN Thrown("TypeError")
  ELSE LET contractAddress == c[chain].GnosisSafeL2 IN
       IF contractAddress = "" THEN Thrown("Error")
       ELSE ReturnedHandle(Contract("GnosisSafeL2", contractAddress, id))

getProxyFactoryContractInstance(c, chain, id) ==
  IF chain \notin DOMAIN c THEN Thrown("TypeError")
  ELSE LET contractAddress == c[chain].GnosisSafeProxyFactory IN
       IF contractAddress = "" THEN Thrown("Error")
       ELSE ReturnedHandle(Contract("GnosisSafeProxyFactory", contractAddress, id))

getFallbackHandlerContractInstance(c, chain, id) ==
  IF chain \notin DOMAIN c THEN Thrown("TypeError")
  ELSE LET contractAddress == c[chain].CompatibilityFallbackHandler IN
       IF contractAddress = "" THEN Thrown("Error")
       ELSE ReturnedHandle(Contract("CompatibilityFallbackHandler", contractAddress, id))

\* Variant that reads a key the records do not have.
getMultiSendContractInstance_WrongKey(c, chain, id) ==
  IF chain \notin DOMAIN c THEN Thrown("TypeError") ELSE Thrown("Error")

getMultiSendContractInstance(c, chain, id) ==
  IF chain \notin DOMAIN c THEN Thrown("TypeError")
  ELSE LET contractAddress == c[chain].MultiSend IN
       IF contractAddress = "" THEN Thrown("Error")
       ELSE ReturnedHandle(Contract("MultiSend", contractAddress, id))

\* Variant that falls back to the '57' record for a chain without one.
getSignMessageLibAddress_Default(c, chain) ==
  LET contractAddress == IF chain \in DOMAIN c THEN c[chain].SignMessageLib
                         ELSE c["57"].SignMessageLib
  IN  IF contractAddress = "" THEN Thrown("Error") ELSE ReturnedAddress(contractAddress)

getSignMessageLibAddress(c, chain) ==
  IF chain \notin DOMAIN c THEN Thrown("TypeError")
  ELSE LET contractAddress == c[chain].SignMessageLib IN
       IF contractAddress = "" THEN Thrown("Error")
       ELSE ReturnedAddress(contractAddress)

getSignMessageLibContractInstance(c, chain, id) ==
  IF chain \notin DOMAIN c THEN Thrown("TypeError")
  ELSE LET contractAddress == c[chain].SignMessageLib IN
       IF contractAddress = "" THEN Thrown("Error")
       ELSE ReturnedHandle(Contract("SignMessageLib", contractAddress, id))

\* ------------------------------------------------------------- state
VARIABLES
  contracts,           \* the table `contracts`
  chainId,             \* the configuration store's chain: what _getChainId() returns
  proxyFactoryMaster,  \* the four module-level cached handles
  safeMaster,
  fallbackHandler,
  multiSend,
  nextHandle,          \* identity of the next object `new` creates
  instantiated,        \* history: the chains of the instantiateSafeContracts calls that
                       \* returned, oldest first
  deployments,         \* the contents of the safe-deployments package
  call                 \* the last call made: its function, inputs and outcome

vars ==
  <<contracts, chainId, proxyFactoryMaster, safeMaster, fallbackHandler, multiSend,
    nextHandle, instantiated, deployments, call>>

handles ==
  [proxyFactoryMaster |-> proxyFactoryMaster, safeMaster |-> safeMaster,
   fallbackHandler |-> fallbackHandler, multiSend |-> multiSend]

ZERO_ADDRESS == "0x0000000000000000000000000000000000000000"
EMPTY_DATA == "0x"

NoData ==
  [selector |-> "", owners |-> <<>>, threshold |-> 0, to |-> "", data |-> "",
   fallbackHandler |-> "", paymentToken |-> "", payment |-> 0, paymentReceiver |-> ""]
NoTx == [to |-> "", method |-> "", singleton |-> "", initializer |-> NoData, salt |-> 0]
NoRequest ==
  [data |-> [selector |-> "", singleton |-> "", initializer |-> NoData, salt |-> 0],
   from |-> "", to |-> ""]
NoVersion == <<0, 0, 0>>
NoDep == [found |-> FALSE, set |-> "", abi |-> "", version |-> NoVersion, networks |-> {}]

NoCall ==
  [fn |-> "", chain |-> "", kind |-> "ok", address |-> "", handle |-> NoHandle,
   tx |-> NoTx, request |-> NoRequest, under |-> "none", raw |-> 0, gas |-> 0,
   version |-> NoVersion, l2 |-> FALSE, deployment |-> NoDep,
   effects |-> <<>>, provided |-> FALSE]

\* Variant that creates each handle only when none is cached yet.
instantiateSafeContracts_Once(c, chain, h, n) ==
  LET r1 == getProxyFactoryContractInstance(c, chain, n)
      r2 == getGnosisSafeContractInstance(c, chain, n + 1)
      r3 == getFallbackHandlerContractInstance(c, chain, n + 2)
      r4 == getMultiSendContractInstance(c, chain, n + 3)
      Keep(old, r) == IF old.defined THEN old ELSE r.handle
      h4 == [proxyFactoryMaster |-> Keep(h.proxyFactoryMaster, r1),
             safeMaster |-> Keep(h.safeMaster, r2),
             fallbackHandler |-> Keep(h.fallbackHandler, r3),
             multiSend |-> Keep(h.multiSend, r4)]
  IN  IF r1.kind # "ok" THEN [kind |-> r1.kind, handles |-> h, created |-> 0]
      ELSE [kind |-> "ok", handles |-> h4, created |-> 4]

\* ------------------------------------------------------------- instantiation
\* The four assignments of instantiateSafeContracts, in order; a lookup
\* that throws ends the function with the earlier assignments made.
\* `h` is the cached handles before the call, `n` the next object identity.
instantiateSafeContracts(c, chain, h, n) ==
  LET r1 == getProxyFactoryContractInstance(c, chain, n)
      r2 == getGnosisSafeContractInstance(c, chain, n + 1)
      r3 == getFallbackHandlerContractInstance(c, chain, n + 2)
      r4 == getMultiSendContractInstance(c, chain, n + 3)
      h1 == [h EXCEPT !.proxyFactoryMaster = r1.handle]
      h2 == [h1 EXCEPT !.safeMaster = r2.handle]
      h3 == [h2 EXCEPT !.fallbackHandler = r3.handle]
      h4 == [h3 EXCEPT !.multiSend = r4.handle]
  IN  IF r1.kind # "ok" THEN [kind |-> r1.kind, handles |-> h, created |-> 0]
      ELSE IF r2.kind # "ok" THEN [kind |-> r2.kind, handles |-> h1, created |-> 1]
      ELSE IF r3.kind # "ok" THEN [kind |-> r3.kind, handles |-> h2, created |-> 2]
      ELSE IF r4.kind # "ok" THEN [kind |-> r4.kind, handles |-> h3, created |-> 3]
      ELSE [kind |-> "ok", handles |-> h4, created |-> 4]

\* x.options.address: reading a property of an unassigned handle throws.
optionsAddress(x) ==
  IF x.defined THEN ReturnedAddress(x.address) ELSE Thrown("TypeError")

getSafeMasterContractAddress(h) == optionsAddress(h.safeMaster)
getFallbackHandlerContractAddress(h) == optionsAddress(h.fallbackHandler)
getMultisendContract(h) == ReturnedHandle(h.multiSend)
getMultisendContractAddress(h) == optionsAddress(h.multiSend)

\* ------------------------------------------------------------- deployment
\* methodCall.encodeABI(): the call data, which does not name the target.
encodeABI(tx) ==
  [selector |-> tx.method, singleton |-> tx.singleton,
   initializer |-> tx.initializer, salt |-> tx.salt]

getSafeDeploymentTransaction(h, safeAccounts, numConfirmations, safeCreationSalt) ==
  IF ~h.safeMaster.defined THEN [kind |-> "TypeError", tx |-> NoTx]
  ELSE IF ~h.fallbackHandler.defined THEN [kind |-> "TypeError", tx |-> NoTx]
  ELSE LET gnosisSafeData ==
             [selector |-> "setup", owners |-> safeAccounts,
              threshold |-> numConfirmations, to |-> ZERO_ADDRESS, data |-> EMPTY_DATA,
              fallbackHandler |-> h.fallbackHandler.address,
              paymentToken |-> ZERO_ADDRESS, payment |-> 0,
              paymentReceiver |-> ZERO_ADDRESS]
       IN  IF ~h.proxyFactoryMaster.defined THEN [kind |-> "TypeError", tx |-> NoTx]
           ELSE [kind |-> "ok",
                 tx |-> [to |-> h.proxyFactoryMaster.address,
                         method |-> "createProxyWithNonce",
                         singleton |-> h.safeMaster.address,
                         initializer |-> gnosisSafeData,
                         salt |-> safeCreationSalt]]

\* Variant without the safety margin.
estimateGasForDeployingSafe_Raw(h, safeAccounts, numConfirmations, userAccount, safeCreationSalt, estimate) ==
  LET t == getSafeDeploymentTransaction(h, safeAccounts, numConfirmations, safeCreationSalt)
      request == [data |-> encodeABI(t.tx), from |-> userAccount,
                  to |-> h.proxyFactoryMaster.address]
  IN  IF t.kind # "ok"
      THEN [kind |-> t.kind, request |-> NoRequest, under |-> "none", gas |-> 0]
      ELSE IF ~estimate.ok
      THEN [kind |-> "Propagated", request |-> request, under |-> "failed", gas |-> 0]
      ELSE [kind |-> "ok", request |-> request, under |-> "ok", gas |-> estimate.value]

\* `estimate` is what calculateGasOf answers for the request:
\* [ok |-> TRUE, value |-> raw] or [ok |-> FALSE, ...] (a rejection).
\* The function is async: an exception thrown while building the request
\* rejects the returned promise.
estimateGasForDeployingSafe(h, safeAccounts, numConfirmations, userAccount, safeCreationSalt, estimate) ==
  LET t == getSafeDeploymentTransaction(h, safeAccounts, numConfirmations, safeCreationSalt)
      request == [data |-> encodeABI(t.tx), from |-> userAccount,
                  to |-> h.proxyFactoryMaster.address]
  IN  IF t.kind # "ok"
      THEN [kind |-> t.kind, request |-> NoRequest, under |-> "none", gas |-> 0]
      ELSE IF ~estimate.ok
      THEN [kind |-> "Propagated", request |-> request, under |-> "failed", gas |-> 0]
      ELSE [kind |-> "ok", request |-> request, under |-> "ok",
            gas |-> estimate.value * 2]

\* ------------------------------------------------------------- versions
\* A version is <<major, minor, patch>>.
Versions == {<<0, 1, 0>>, <<1, 0, 0>>, <<1, 1, 1>>, <<1, 2, 0>>, <<1, 3, 0>>, <<1, 4, 1>>}

semverLt(a, b) ==
  \/ a[1] < b[1]
  \/ a[1] = b[1] /\ a[2] < b[2]
  \/ a[1] = b[1] /\ a[2] = b[2] /\ a[3] < b[3]

\* semverSatisfies(version, range) for the two ranges the module uses.
semverSatisfies(version, op, bound) ==
  IF op = "<" THEN semverLt(version, bound) ELSE ~semverLt(version, bound)

\* Two possible contents of the safe-deployments package: per contract set
\* ("L1" the Safe singleton, "L2" the SafeL2 singleton) one entry per
\* released version, with the networks it is deployed on.
Dep(set, abi, version, networks) ==
  [found |-> TRUE, set |-> set, abi |-> abi, version |-> version, networks |-> networks]

DeploymentsA ==
  {Dep("L1", "GnosisSafe-1.0.0", <<1, 0, 0>>, {"1"}),
   Dep("L1", "GnosisSafe-1.1.1", <<1, 1, 1>>, {"1", "57"}),
   Dep("L1", "GnosisSafe-1.3.0", <<1, 3, 0>>, {"1", "57", "5700"}),
   Dep("L2", "GnosisSafeL2-1.3.0", <<1, 3, 0>>, {"57"}),
   Dep("L2", "GnosisSafeL2-1.4.1", <<1, 4, 1>>, {"1"})}

DeploymentsB ==
  {Dep("L1", "GnosisSafe-1.1.1", <<1, 1, 1>>, {"1"}),
   Dep("L1", "GnosisSafe-1.3.0", <<1, 3, 0>>, {"1"}),
   Dep("L2", "GnosisSafeL2-1.0.0", <<1, 0, 0>>, {"1"}),
   Dep("L2", "GnosisSafeL2-1.3.0", <<1, 3, 0>>, {"1", "5700"})}

\* The package's lookup: the entry of the set that matches the filter;
\* network "" is a filter without a network.
findDeployment(ds, version, network) ==
  LET m == {d \in ds : d.version = version /\ (network = "" \/ network \in d.networks)}
  IN  IF m = {} THEN NoDep ELSE CHOOSE d \in m : TRUE

getSafeSingletonDeployment(db, version, network) ==
  findDeployment({d \in db : d.set = "L1"}, version, network)

getSafeL2SingletonDeployment(db, version, network) ==
  findDeployment({d \in db : d.set = "L2"}, version, network)

\* Variant that picks the L2 set from the chain's flag alone.
getSafeContractDeployment_L2ByFlag(db, networkId, l2, safeVersion) ==
  LET useOldestContractVersion == semverSatisfies(safeVersion, "<", <<1, 0, 0>>)
      getDeployment(version, network) ==
        IF l2
        THEN getSafeL2SingletonDeployment(db, version, network)
        ELSE getSafeSingletonDeployment(db, version, network)
      onNetwork == getDeployment(safeVersion, networkId)
      anyNetwork == getDeployment(safeVersion, "")
  IN  IF onNetwork.found THEN onNetwork
      ELSE IF anyNetwork.found THEN anyNetwork
      ELSE IF useOldestContractVersion THEN getDeployment(<<1, 0, 0>>, "")
      ELSE NoDep

\* `networkId` is _getChainId(), `l2` the l2 flag of that chain's config.
getSafeContractDeployment(db, networkId, l2, safeVersion) ==
  LET useOldestContractVersion == semverSatisfies(safeVersion, "<", <<1, 0, 0>>)
      useL2ContractVersion == l2 /\ semverSatisfies(safeVersion, ">=", <<1, 3, 0>>)
      getDeployment(version, network) ==
        IF useL2ContractVersion
        THEN getSafeL2SingletonDeployment(db, version, network)
        ELSE getSafeSingletonDeployment(db, version, network)
      onNetwork == getDeployment(safeVersion, networkId)
      anyNetwork == getDeployment(safeVersion, "")
  IN  IF onNetwork.found THEN onNetwork
      ELSE IF anyNetwork.found THEN anyNetwork
      ELSE IF useOldestContractVersion THEN getDeployment(<<1, 0, 0>>, "")
      ELSE NoDep

\* new web3.eth.Contract(undefined, address) throws in web3.
getGnosisSafeInstanceAt(db, networkId, l2, safeAddress, safeVersion, id) ==
  LET safeSingletonDeployment == getSafeContractDeployment(db, networkId, l2, safeVersion)
  IN  IF ~safeSingletonDeployment.found THEN Thrown("Propagated")
      ELSE ReturnedHandle(Contract(safeSingletonDeployment.abi, safeAddress, id))

\* ------------------------------------------------------------- master copy
\* Variant without the try/catch: a getSafeInfo failure reaches the caller.
getMasterCopyAddressFromProxyAddress_Rethrow(info) ==
  IF info.outcome = "resolved"
  THEN [kind |-> "ok", address |-> info.value, under |-> "ok"]
  ELSE [kind |-> "Propagated", address |-> "", under |-> "failed"]

\* `info` is what getSafeInfo(proxyAddress) does:
\*   [outcome |-> "resolved", value |-> v]  resolves, res.implementation.value = v
\*   [outcome |-> "coded"]   rejects with an exception that has log()
\*   [outcome |-> "plain"]   rejects with (or the read of res.implementation.value
\*                           throws) a value that has no log()
getMasterCopyAddressFromProxyAddress(info) ==
  IF info.outcome = "resolved"
  THEN [kind |-> "ok", address |-> info.value, under |-> "ok"]
  ELSE IF info.outcome = "coded"
  THEN [kind |-> "ok", address |-> "", under |-> "failed"]
  ELSE [kind |-> "TypeError", address |-> "", under |-> "failed"]

\* ------------------------------------------------------------- SafeListItem
SafeAddresses == {"0xSafeA", "0xSafeB"}

\* getChainById(networkId).shortName
shortName(networkId) ==
  IF networkId = "57" THEN "sys" ELSE IF networkId = "5700" THEN "tsys" ELSE "eth"

Effect(op) == [op |-> op, path |-> "", shortName |-> "", safeAddress |-> "", chain |-> ""]

\* history.push(generateSafeRoute(path, routesSlug))
Push(path, networkId, address) ==
  [Effect("history.push") EXCEPT !.path = path, !.shortName = shortName(networkId),
                                 !.safeAddress = address]

OptionalCall(provided, op) == IF provided THEN <<Effect(op)>> ELSE <<>>

\* The calls each handler makes, in order.  `provided` says whether the
\* optional onNetworkSwitch prop was given.
handleOpenSafe(provided, address, networkId) ==
  <<Effect("onSafeClick")>> \o OptionalCall(provided, "onNetworkSwitch")
    \o <<Push("ASSETS_BALANCES", networkId, address)>>

\* Variant that switches the chain before navigating.
handleLoadSafe_SwitchFirst(provided, address, networkId) ==
  <<Effect("onSafeClick")>> \o OptionalCall(provided, "onNetworkSwitch")
    \o <<[Effect("setChainId") EXCEPT !.chain = networkId]>>
    \o <<Push("LOAD_SPECIFIC_SAFE_ROUTE", networkId, address)>>

handleLoadSafe(provided, address, networkId) ==
  <<Effect("onSafeClick")>> \o OptionalCall(provided, "onNetworkSwitch")
    \o <<Push("LOAD_SPECIFIC_SAFE_ROUTE", networkId, address)>>
    \o <<[Effect("setChainId") EXCEPT !.chain = networkId]>>

\* The store's chain after the effects: setChainId(x) makes it x.
ChainAfter(effects, chain) ==
  LET sets == SelectSeq(effects, LAMBDA e : e.op = "setChainId")
  IN  IF sets = <<>> THEN chain ELSE sets[Len(sets)].chain

\* ------------------------------------------------------------- inputs
OwnerLists == {<<"0xOwnerA">>, <<"0xOwnerA", "0xOwnerB">>}
Salts == {0, 7}
UserAccounts == {"0xUser"}
\* What calculateGasOf can answer: a raw estimate, or a rejection.
Estimates ==
  {[ok |-> TRUE, value |-> v] : v \in 0..MaxGas} \cup {[ok |-> FALSE, value |-> 0]}
\* What getSafeInfo can do.
SafeInfos ==
  {[outcome |-> "resolved", value |-> "0xMasterCopy"], [outcome |-> "resolved", value |-> ""],
   [outcome |-> "coded", value |-> ""], [outcome |-> "plain", value |-> ""]}

Outcome(fn, chain, r) ==
  [NoCall EXCEPT !.fn = fn, !.chain = chain, !.kind = r.kind,
                 !.address = r.address, !.handle = r.handle]

Allocated(r) == IF r.kind = "ok" THEN nextHandle + 1 ELSE nextHandle

Cached == <<proxyFactoryMaster, safeMaster, fallbackHandler, multiSend, instantiated>>

Init ==
  /\ contracts = ContractsTable
  /\ chainId \in ChainIds
  /\ proxyFactoryMaster = NoHandle
  /\ safeMaster = NoHandle
  /\ fallbackHandler = NoHandle
  /\ multiSend = NoHandle
  /\ nextHandle = 0
  /\ instantiated = <<>>
  /\ deployments \in {DeploymentsA, DeploymentsB}
  /\ call = NoCall

\* ------------------------------------------------------------- lookup calls
Call_getGnosisSafeContractInstance ==
  \E chain \in ChainIds :
    /\ nextHandle < MaxHandles
    /\ LET r == getGnosisSafeContractInstance(contracts, chain, nextHandle + 1)
       IN  /\ call' = Outcome("getGnosisSafeContractInstance", chain, r)
           /\ nextHandle' = Allocated(r)
    /\ UNCHANGED <<contracts, chainId, Cached, deployments>>

Call_getProxyFactoryContractInstance ==
  \E chain \in ChainIds :
    /\ nextHandle < MaxHandles
    /\ LET r == getProxyFactoryContractInstance(contracts, chain, nextHandle + 1)
       IN  /\ call' = Outcome("getProxyFactoryContractInstance", chain, r)
           /\ nextHandle' = Allocated(r)
    /\ UNCHANGED <<contracts, chainId, Cached, deployments>>

Call_getFallbackHandlerContractInstance ==
  \E chain \in ChainIds :
    /\ nextHandle < MaxHandles
    /\ LET r == getFallbackHandlerContractInstance(contracts, chain, nextHandle + 1)
       IN  /\ call' = Outcome("getFallbackHandlerContractInstance", chain, r)
           /\ nextHandle' = Allocated(r)
    /\ UNCHANGED <<contracts, chainId, Cached, deployments>>

Call_getMultiSendContractInstance ==
  \E chain \in ChainIds :
    /\ nextHandle < MaxHandles
    /\ LET r == getMultiSendContractInstance(contracts, chain, nextHandle + 1)
       IN  /\ call' = Outcome("getMultiSendContractInstance", chain, r)
           /\ nextHandle' = Allocated(r)
    /\ UNCHANGED <<contracts, chainId, Cached, deployments>>

Call_getSignMessageLibAddress ==
  \E chain \in ChainIds :
    /\ call' = Outcome("getSignMessageLibAddress", chain,
                       getSignMessageLibAddress(contracts, chain))
    /\ UNCHANGED <<contracts, chainId, Cached, nextHandle, deployments>>

Call_getSignMessageLibContractInstance ==
  \E chain \in ChainIds :
    /\ nextHandle < MaxHandles
    /\ LET r == getSignMessageLibContractInstance(contracts, chain, nextHandle + 1)
       IN  /\ call' = Outcome("getSignMessageLibContractInstance", chain, r)
           /\ nextHandle' = Allocated(r)
    /\ UNCHANGED <<contracts, chainId, Cached, deployments>>

Call_getMasterCopyAddressFromProxyAddress ==
  \E info \in SafeInfos :
    /\ LET r == getMasterCopyAddressFromProxyAddress(info)
       IN  call' = [NoCall EXCEPT !.fn = "getMasterCopyAddressFromProxyAddress",
                                  !.kind = r.kind, !.address = r.address,
                                  !.under = r.under]
    /\ UNCHANGED <<contracts, chainId, Cached, nextHandle, deployments>>

\* ------------------------------------------------------------- cached handles
\* getSafeMasterContract: instantiateSafeContracts(), then return safeMaster.
getSafeMasterContract(c, chain, h, n) ==
  LET r == instantiateSafeContracts(c, chain, h, n)
  IN  [kind |-> r.kind, handles |-> r.handles, created |-> r.created,
       handle |-> IF r.kind = "ok" THEN r.handles.safeMaster ELSE NoHandle]

\* The module-level variables after an instantiation with result r.
Store(r) ==
  /\ proxyFactoryMaster' = r.handles.proxyFactoryMaster
  /\ safeMaster' = r.handles.safeMaster
  /\ fallbackHandler' = r.handles.fallbackHandler
  /\ multiSend' = r.handles.multiSend
  /\ nextHandle' = nextHandle + r.created
  /\ instantiated' = IF r.kind = "ok" THEN Append(instantiated, chainId) ELSE instantiated

\* Variant that registers a record for a chain the table does not have.
Call_instantiateSafeContracts_Registering ==
  /\ nextHandle + 4 <= MaxHandles
  /\ contracts' = [k \in DOMAIN contracts \cup {chainId} |->
                     IF k \in DOMAIN contracts THEN contracts[k] ELSE contracts["57"]]
  /\ LET r == instantiateSafeContracts(contracts', chainId, handles, nextHandle + 1)
     IN  /\ Store(r)
         /\ call' = [NoCall EXCEPT !.fn = "instantiateSafeContracts",
                                   !.chain = chainId, !.kind = r.kind]
  /\ UNCHANGED <<chainId, deployments>>

Call_instantiateSafeContracts ==
  /\ nextHandle + 4 <= MaxHandles
  /\ LET r == instantiateSafeContracts(contracts, chainId, handles, nextHandle + 1)
     IN  /\ Store(r)
         /\ call' = [NoCall EXCEPT !.fn = "instantiateSafeContracts",
                                   !.chain = chainId, !.kind = r.kind]
  /\ UNCHANGED <<contracts, chainId, deployments>>

Call_getSafeMasterContract ==
  /\ nextHandle + 4 <= MaxHandles
  /\ LET r == getSafeMasterContract(contracts, chainId, handles, nextHandle + 1)
     IN  /\ Store(r)
         /\ call' = [NoCall EXCEPT !.fn = "getSafeMasterContract", !.chain = chainId,
                                   !.kind = r.kind, !.handle = r.handle]
  /\ UNCHANGED <<contracts, chainId, deployments>>

Call_getSafeMasterContractAddress ==
  /\ call' = Outcome("getSafeMasterContractAddress", "", getSafeMasterContractAddress(handles))
  /\ UNCHANGED <<contracts, chainId, Cached, nextHandle, deployments>>

Call_getFallbackHandlerContractAddress ==
  /\ call' = Outcome("getFallbackHandlerContractAddress", "",
                     getFallbackHandlerContractAddress(handles))
  /\ UNCHANGED <<contracts, chainId, Cached, nextHandle, deployments>>

\* Variant that instantiates the contracts before answering.
Call_getMultisendContract_Lazy ==
  /\ nextHandle + 4 <= MaxHandles
  /\ LET r == instantiateSafeContracts(contracts, chainId, handles, nextHandle + 1)
     IN  /\ Store(r)
         /\ call' = Outcome("getMultisendContract", "", ReturnedHandle(r.handles.multiSend))
  /\ UNCHANGED <<contracts, chainId, deployments>>

Call_getMultisendContract ==
  /\ call' = Outcome("getMultisendContract", "", getMultisendContract(handles))
  /\ UNCHANGED <<contracts, chainId, Cached, nextHandle, deployments>>

Call_getMultisendContractAddress ==
  /\ call' = Outcome("getMultisendContractAddress", "", getMultisendContractAddress(handles))
  /\ UNCHANGED <<contracts, chainId, Cached, nextHandle, deployments>>

\* ------------------------------------------------------------- deployment calls
Call_getSafeDeploymentTransaction ==
  \E safeAccounts \in OwnerLists, safeCreationSalt \in Salts :
    \E numConfirmations \in 1..Len(safeAccounts) :
      /\ LET r == getSafeDeploymentTransaction(handles, safeAccounts, numConfirmations,
                                               safeCreationSalt)
         IN  call' = [NoCall EXCEPT !.fn = "getSafeDeploymentTransaction",
                                    !.kind = r.kind, !.tx = r.tx]
      /\ UNCHANGED <<contracts, chainId, Cached, nextHandle, deployments>>

Call_estimateGasForDeployingSafe ==
  \E safeAccounts \in OwnerLists, safeCreationSalt \in Salts,
     userAccount \in UserAccounts, estimate \in Estimates :
    \E numConfirmations \in 1..Len(safeAccounts) :
      /\ LET r == estimateGasForDeployingSafe(handles, safeAccounts, numConfirmations,
                                              userAccount, safeCreationSalt, estimate)
         IN  call' = [NoCall EXCEPT !.fn = "estimateGasForDeployingSafe",
                                    !.kind = r.kind, !.request = r.request,
                                    !.under = r.under, !.gas = r.gas,
                                    !.raw = IF r.under = "ok" THEN estimate.value ELSE 0]
      /\ UNCHANGED <<contracts, chainId, Cached, nextHandle, deployments>>

Call_getGnosisSafeInstanceAt ==
  \E safeAddress \in SafeAddresses, safeVersion \in Versions, l2 \in BOOLEAN :
    /\ nextHandle < MaxHandles
    /\ LET r == getGnosisSafeInstanceAt(deployments, chainId, l2, safeAddress,
                                        safeVersion, nextHandle + 1)
       IN  /\ call' = [Outcome("getGnosisSafeInstanceAt", chainId, r) EXCEPT
                         !.version = safeVersion, !.l2 = l2,
                         !.deployment = getSafeContractDeployment(deployments, chainId,
                                                                  l2, safeVersion)]
           /\ nextHandle' = Allocated(r)
    /\ UNCHANGED <<contracts, chainId, Cached, deployments>>

\* ------------------------------------------------------------- clicks
Click_handleOpenSafe ==
  \E provided \in BOOLEAN, address \in SafeAddresses, networkId \in ChainIds :
    /\ LET effects == handleOpenSafe(provided, address, networkId)
       IN  /\ call' = [NoCall EXCEPT !.fn = "handleOpenSafe", !.chain = networkId,
                                     !.address = address, !.provided = provided,
                                     !.effects = effects]
           /\ chainId' = ChainAfter(effects, chainId)
    /\ UNCHANGED <<contracts, Cached, nextHandle, deployments>>

Click_handleLoadSafe ==
  \E provided \in BOOLEAN, address \in SafeAddresses, networkId \in ChainIds :
    /\ LET effects == handleLoadSafe(provided, address, networkId)
       IN  /\ call' = [NoCall EXCEPT !.fn = "handleLoadSafe", !.chain = networkId,
                                     !.address = address, !.provided = provided,
                                     !.effects = effects]
           /\ chainId' = ChainAfter(effects, chainId)
    /\ UNCHANGED <<contracts, Cached, nextHandle, deployments>>

Next ==
  \/ Call_getGnosisSafeContractInstance
  \/ Call_getProxyFactoryContractInstance
  \/ Call_getFallbackHandlerContractInstance
  \/ Call_getMultiSendContractInstance
  \/ Call_getSignMessageLibAddress
  \/ Call_getSignMessageLibContractInstance
  \/ Call_getMasterCopyAddressFromProxyAddress
  \/ Call_instantiateSafeContracts
  \/ Call_getSafeMasterContract
  \/ Call_getSafeMasterContractAddress
  \/ Call_getFallbackHandlerContractAddress
  \/ Call_getMultisendContract
  \/ Call_getMultisendContractAddress
  \/ Call_getSafeDeploymentTransaction
  \/ Call_estimateGasForDeployingSafe
  \/ Call_getGnosisSafeInstanceAt
  \/ Click_handleOpenSafe
  \/ Click_handleLoadSafe

Spec == Init /\ [][Next]_vars

\* ============================================================= properties
InstanceLookups ==
  {"getGnosisSafeContractInstance", "getProxyFactoryContractInstance",
   "getFallbackHandlerContractInstance", "getMultiSendContractInstance",
   "getSignMessageLibContractInstance"}
Lookups == InstanceLookups \cup {"getSignMessageLibAddress"}

\* The contract whose address each lookup function reads.
ContractOf(fn) ==
  IF fn = "getGnosisSafeContractInstance" THEN "GnosisSafeL2"
  ELSE IF fn = "getProxyFactoryContractInstance" THEN "GnosisSafeProxyFactory"
  ELSE IF fn = "getFallbackHandlerContractInstance" THEN "CompatibilityFallbackHandler"
  ELSE IF fn = "getMultiSendContractInstance" THEN "MultiSend"
  ELSE "SignMessageLib"

\* The address a lookup call answered with.
Answered == IF call.fn \in InstanceLookups THEN call.handle.address ELSE call.address

\* The chain of the most recent instantiateSafeContracts that returned.
LastInstantiated == instantiated[Len(instantiated)]

\* C1: every key of the table ('57', '5700') has a record with a non-empty
\* address for each of the five contracts, and every lookup function called
\* with a key of the table returns normally with that non-empty address.
C1_SupportedLookupsSucceed ==
  /\ DOMAIN contracts = {"57", "5700"}
  /\ \A c \in DOMAIN contracts : \A n \in ContractNames : contracts[c][n] # ""
  /\ (call.fn \in Lookups /\ call.chain \in DOMAIN contracts) =>
       /\ call.kind = "ok"
       /\ Answered # ""
       /\ Answered = contracts[call.chain][ContractOf(call.fn)]

C1_Witness ==
  /\ call.fn = "getSignMessageLibAddress"
  /\ call.chain = "5700"
  /\ call.address = "0x6586e66ceFaa4961361bAE42EB2c70d89220A576"

\* C2: a lookup function called with a chain identifier that is not a key
\* of the table throws, and yields neither an address nor a handle.
C2_UnsupportedLookupsThrow ==
  (call.fn \in Lookups /\ call.chain \notin DOMAIN contracts) =>
    /\ call.kind \in {"Error", "TypeError"}
    /\ call.address = ""
    /\ ~call.handle.defined

C2_Witness ==
  /\ call.fn = "getSignMessageLibAddress"
  /\ call.chain = "1"
  /\ call.kind = "TypeError"

\* C3: when calculateGasOf answers the deployment request (data = the
\* encoded createProxyWithNonce call, from = userAccount, to = the cached
\* proxy factory address) with a raw estimate, estimateGasForDeployingSafe
\* returns 2 * raw; when calculateGasOf fails, the call fails with the
\* propagated failure and returns no value.
C3_GasIsTwiceRaw ==
  (call.fn = "estimateGasForDeployingSafe" /\ call.under # "none") =>
    /\ call.request.data.selector = "createProxyWithNonce"
    /\ call.request.data.singleton = safeMaster.address
    /\ call.request.data.initializer.selector = "setup"
    /\ call.request.from \in UserAccounts
    /\ call.request.to = proxyFactoryMaster.address
    /\ call.request.to # ""
    /\ call.under = "ok" => (call.kind = "ok" /\ call.gas = 2 * call.raw)
    /\ call.under = "failed" => (call.kind = "Propagated" /\ call.gas = 0)

C3_Witness ==
  /\ call.fn = "estimateGasForDeployingSafe"
  /\ call.under = "ok"
  /\ call.raw = MaxGas
  /\ call.gas = 2 * MaxGas

\* C4: the table never changes: in every reachable state, after calls that
\* returned and calls that threw, its keys and addresses are the initial ones.
C4_TableNeverMutated == contracts = ContractsTable

C4_Witness ==
  /\ instantiated = <<"5700">>
  /\ call.fn = "instantiateSafeContracts"
  /\ call.kind = "TypeError"
  /\ call.chain = "1"

\* C5: once instantiateSafeContracts has returned, getSafeMasterContractAddress,
\* getFallbackHandlerContractAddress, getMultisendContractAddress and
\* getMultisendContract answer with the table addresses of the chain that was
\* selected at the most recent instantiateSafeContracts call that returned.
C5_LastWriteWins ==
  instantiated # <<>> =>
    LET rec == contracts[LastInstantiated] IN
    /\ getSafeMasterContractAddress(handles) = ReturnedAddress(rec.GnosisSafeL2)
    /\ getFallbackHandlerContractAddress(handles) =
         ReturnedAddress(rec.CompatibilityFallbackHandler)
    /\ getMultisendContractAddress(handles) = ReturnedAddress(rec.MultiSend)
    /\ getMultisendContract(handles).handle.address = rec.MultiSend
    /\ call.fn = "getSafeMasterContractAddress" =>
         (call.kind = "ok" /\ call.address = rec.GnosisSafeL2)
    /\ call.fn = "getFallbackHandlerContractAddress" =>
         (call.kind = "ok" /\ call.address = rec.CompatibilityFallbackHandler)
    /\ call.fn = "getMultisendContractAddress" =>
         (call.kind = "ok" /\ call.address = rec.MultiSend)
    /\ call.fn = "getMultisendContract" =>
         (call.kind = "ok" /\ call.handle.address = rec.MultiSend)

C5_Witness ==
  /\ instantiated = <<"57", "5700">>
  /\ call.fn = "getSafeMasterContractAddress"
  /\ call.address = "0x84C2130B89b080aC92b99d988480f63955BCA09A"

ReadAccessors ==
  {"getSafeMasterContract", "getSafeMasterContractAddress",
   "getFallbackHandlerContractAddress", "getMultisendContract",
   "getMultisendContractAddress"}
AddressAccessors == ReadAccessors \ {"getSafeMasterContract"}

\* C6 as stated: once the handles have been created for the selected chain
\* and while that chain stays selected, no call to a read accessor
\* (getSafeMasterContract included) creates handles or replaces the cached
\* ones.
C6_AccessorsNeverReplace ==
  [][(/\ call'.fn \in ReadAccessors
      /\ instantiated # <<>>
      /\ LastInstantiated = chainId
      /\ chainId' = chainId) =>
       (handles' = handles /\ nextHandle' = nextHandle)]_vars

\* C6 amended: getSafeMasterContractAddress, getFallbackHandlerContractAddress,
\* getMultisendContract and getMultisendContractAddress create no handle and
\* leave the cached ones as they are; getSafeMasterContract re-runs
\* instantiateSafeContracts on every call: when it returns, all four cached
\* handles are objects created by that call, bound to the table addresses
\* of the selected chain.
C6_OnlyAddressAccessorsKeepHandles ==
  [][/\ call'.fn \in AddressAccessors =>
          (handles' = handles /\ nextHandle' = nextHandle)
     /\ (call'.fn = "getSafeMasterContract" /\ call'.kind = "ok") =>
          /\ nextHandle' = nextHandle + 4
          /\ \A k \in DOMAIN handles :
               handles'[k].defined /\ handles'[k].id > nextHandle
                 /\ handles'[k] # handles[k]
          /\ safeMaster'.address = contracts[chainId].GnosisSafeL2
          /\ call'.handle = safeMaster'
    ]_vars

C6_Witness ==
  /\ call.fn = "getSafeMasterContract"
  /\ call.kind = "ok"
  /\ instantiated = <<"57", "57">>
  /\ call.handle = safeMaster
  /\ safeMaster.id > 4

ChainKeyed == Lookups \cup {"instantiateSafeContracts", "getSafeMasterContract"}
HandleReaders ==
  {"getSafeMasterContractAddress", "getFallbackHandlerContractAddress",
   "getMultisendContractAddress", "getSafeDeploymentTransaction",
   "estimateGasForDeployingSafe"}

\* The call threw because the requested chain has no configuration.
MissingConfiguration ==
  /\ call.fn \in ChainKeyed
  /\ call.chain \notin DOMAIN contracts
  /\ call.kind \in {"Error", "TypeError"}

\* The call failed with the failure of the layer underneath it.
PropagatedFailure ==
  /\ call.kind = "Propagated"
  /\ \/ call.fn = "estimateGasForDeployingSafe" /\ call.under = "failed"
     \/ call.fn = "getGnosisSafeInstanceAt" /\ ~call.deployment.found

\* The call returned normally and nothing underneath it failed.
ReturnedNormally == call.kind = "ok" /\ call.under # "failed"

\* C7 as stated: every call either returns normally with no failure
\* underneath, or throws the missing-configuration error of the requested
\* chain, or fails with the propagated failure of the layer underneath.
C7_OnlyDeclaredErrors ==
  ReturnedNormally \/ MissingConfiguration \/ PropagatedFailure

\* C7 amended: besides those three outcomes there are exactly two more.
\* (a) getSafeMasterContractAddress, getFallbackHandlerContractAddress,
\* getMultisendContractAddress, getSafeDeploymentTransaction and
\* estimateGasForDeployingSafe fail with a TypeError when no
\* instantiateSafeContracts has returned yet.  (b)
\* getMasterCopyAddressFromProxyAddress recovers locally from a getSafeInfo
\* failure: it returns undefined when the caught value has log(), and fails
\* with a TypeError when it has not.  The missing-configuration error is
\* always the TypeError of reading the missing table entry.
C7_ErrorsOfTheModule ==
  /\ \/ ReturnedNormally
     \/ MissingConfiguration
     \/ PropagatedFailure
     \/ /\ call.fn \in HandleReaders
        /\ instantiated = <<>>
        /\ call.kind = "TypeError"
     \/ /\ call.fn = "getMasterCopyAddressFromProxyAddress"
        /\ call.under = "failed"
        /\ call.address = ""
        /\ call.kind \in {"ok", "TypeError"}
  /\ MissingConfiguration => call.kind = "TypeError"
  /\ (call.fn \in HandleReaders /\ instantiated # <<>> /\ call.under = "none") =>
       call.kind = "ok"

C7_Witness ==
  /\ call.fn = "getMasterCopyAddressFromProxyAddress"
  /\ call.under = "failed"
  /\ call.kind = "ok"

\* C8: getSafeContractDeployment uses the L2 set exactly when the chain is
\* flagged l2 and safeVersion >= 1.3.0, else the legacy set; in that set it
\* returns the deployment of safeVersion on the current network if there is
\* one, else the deployment of safeVersion on any network if there is one,
\* else the 1.0.0 deployment if safeVersion < 1.0.0, else undefined.
C8_DeploymentSelection ==
  call.fn = "getGnosisSafeInstanceAt" =>
    LET v == call.version
        set == IF call.l2 /\ ~semverLt(v, <<1, 3, 0>>) THEN "L2" ELSE "L1"
        here == {d \in deployments :
                   d.set = set /\ d.version = v /\ call.chain \in d.networks}
        anywhere == {d \in deployments : d.set = set /\ d.version = v}
        oldest == {d \in deployments : d.set = set /\ d.version = <<1, 0, 0>>}
        got == call.deployment
    IN  /\ call.chain = chainId
        /\ here # {} => got \in here
        /\ (here = {} /\ anywhere # {}) => got \in anywhere
        /\ (anywhere = {} /\ semverLt(v, <<1, 0, 0>>) /\ oldest # {}) => got \in oldest
        /\ (anywhere = {} /\ semverLt(v, <<1, 0, 0>>) /\ oldest = {}) => ~got.found
        /\ (anywhere = {} /\ ~semverLt(v, <<1, 0, 0>>)) => ~got.found

C8_Witness ==
  /\ call.fn = "getGnosisSafeInstanceAt"
  /\ call.version = <<0, 1, 0>>
  /\ call.l2
  /\ call.deployment.found
  /\ call.deployment.set = "L1"
  /\ call.deployment.version = <<1, 0, 0>>

\* The four cached handles hold the addresses of chain c's record.
HandlesOf(c) ==
  /\ proxyFactoryMaster.defined /\ safeMaster.defined
  /\ fallbackHandler.defined /\ multiSend.defined
  /\ proxyFactoryMaster.address = contracts[c].GnosisSafeProxyFactory
  /\ safeMaster.address = contracts[c].GnosisSafeL2
  /\ fallbackHandler.address = contracts[c].CompatibilityFallbackHandler
  /\ multiSend.address = contracts[c].MultiSend

NoHandles ==
  /\ ~proxyFactoryMaster.defined /\ ~safeMaster.defined
  /\ ~fallbackHandler.defined /\ ~multiSend.defined

\* The deployment transaction names factory, singleton and fallback
\* handler of chain c's record.
TransactionOf(tx, c) ==
  /\ tx.to = contracts[c].GnosisSafeProxyFactory
  /\ tx.singleton = contracts[c].GnosisSafeL2
  /\ tx.initializer.fallbackHandler = contracts[c].CompatibilityFallbackHandler

\* C9: in every reachable state the four cached handles are all unset or
\* all hold the addresses of one chain's record; an instantiateSafeContracts
\* call that throws leaves the four as they were; and a transaction that
\* getSafeDeploymentTransaction returns names the proxy factory, singleton
\* and fallback handler of one and the same chain.
C9_AllOrNothing ==
  /\ [](/\ NoHandles \/ \E c \in DOMAIN contracts : HandlesOf(c)
        /\ (call.fn = "getSafeDeploymentTransaction" /\ call.kind = "ok") =>
             \E c \in DOMAIN contracts : TransactionOf(call.tx, c))
  /\ [][(call'.fn \in {"instantiateSafeContracts", "getSafeMasterContract"}
           /\ call'.kind # "ok") => handles' = handles]_vars

C9_Witness ==
  /\ call.fn = "instantiateSafeContracts"
  /\ call.kind = "TypeError"
  /\ HandlesOf("5700")

\* C10: handleOpenSafe and handleLoadSafe call onSafeClick first, then
\* onNetworkSwitch when it was provided, then push the route built from the
\* short name of the item's chain and the item's address; handleLoadSafe
\* then sets the store's chain to the item's networkId as its last step;
\* handleOpenSafe makes no setChainId call.
C10_HandlerOrder ==
  call.fn \in {"handleOpenSafe", "handleLoadSafe"} =>
    LET e == call.effects
        k == IF call.provided THEN 1 ELSE 0
        load == call.fn = "handleLoadSafe"
    IN  /\ Len(e) = 2 + k + (IF load THEN 1 ELSE 0)
        /\ e[1].op = "onSafeClick"
        /\ call.provided => e[2].op = "onNetworkSwitch"
        /\ e[2 + k].op = "history.push"
        /\ e[2 + k].path = (IF load THEN "LOAD_SPECIFIC_SAFE_ROUTE" ELSE "ASSETS_BALANCES")
        /\ e[2 + k].shortName = shortName(call.chain)
        /\ e[2 + k].safeAddress = call.address
        /\ load => /\ e[3 + k].op = "setChainId"
                   /\ e[3 + k].chain = call.chain
                   /\ chainId = call.chain
        /\ ~load => \A i \in 1..Len(e) : e[i].op # "setChainId"

C10_Witness ==
  /\ call.fn = "handleLoadSafe"
  /\ call.provided
  /\ call.chain = "5700"
  /\ chainId = "5700"
  /\ Len(call.effects) = 4

====
